---- MODULE Spec2Model ----
(***************************************************************************)
(* Topic priority engine of seikai_hack                                    *)
(* (src/seikai_hack/services/priority_queue.py, PriorityQueueService).     *)
(*                                                                         *)
(* Python values are modelled as follows.                                  *)
(*  - str: a sequence of one-character strings, so that the f-string       *)
(*    f"{session_id}_{topic_name}" is a real concatenation and             *)
(*    str.startswith is a real prefix test.                                *)
(*  - dict objects (the topic records) live in a heap; _topics and the     *)
(*    lists in priority_queues hold references (heap indices), so that     *)
(*    two keys or two lists can share one record, as in Python.            *)
(*  - float: an IEEE-754 binary64 value, kept as a 53-bit significand in   *)
(*    four 14-bit limbs and a binary exponent; products are rounded to     *)
(*    nearest, ties to even, as the hardware does.                         *)
(***************************************************************************)
EXTENDS Integers, Sequences, FiniteSets, TLC

(***************************************************************************)
(* Bounds of the model.                                                    *)
(***************************************************************************)
MaxCalls == 3            \* calls of the engine in one behaviour
MaxAttempts == 3         \* questions_attempted, summed over the records
MaxBatch == 2            \* outcomes in one batch
MaxTopicsPerOutcome == 2 \* topic names in one outcome, and in one batch
MaxTime == 1             \* ticks of the clock
MaxStreak == 8           \* questions_attempted of the record of OneTopic
MaxTaskRefs == 2         \* outcomes in the batch of one concurrent caller
MaxWrong == 1420         \* questions_attempted of the record of WrongStreak

(***************************************************************************)
(* binary64 arithmetic.  A positive normal double is [m |-> <<l3, l2, l1,  *)
(* l0>>, e |-> e] and stands for (l3*B^3 + l2*B^2 + l1*B + l0) * 2^e with  *)
(* B = 2^14 and 2^52 <= significand < 2^53 (so 1024 <= l3 < 2048).         *)
(* Exponent overflow and subnormals are out of reach of the scores the     *)
(* bounded model produces and are not represented.                         *)
(***************************************************************************)
LimbBase == 2 * 8192

F_1_0 == [m |-> <<1024, 0, 0, 0>>, e |-> -52]
F_0_7 == [m |-> <<1433, 9830, 6553, 9830>>, e |-> -53]
F_0_9 == [m |-> <<1843, 3276, 13107, 3277>>, e |-> -53]
F_1_5 == [m |-> <<1536, 0, 0, 0>>, e |-> -52]
F_1_2 == [m |-> <<1228, 13107, 3276, 13107>>, e |-> -52]
F_1_1 == [m |-> <<1126, 6553, 9830, 6554>>, e |-> -52]
F_0_1 == [m |-> <<1638, 6553, 9830, 6554>>, e |-> -56]
\* the double written 1.65 and its successor, repr 1.6500000000000001
F_1_65 == [m |-> <<1689, 9830, 6553, 9830>>, e |-> -52]
F_1_65_next == [m |-> <<1689, 9830, 6553, 9831>>, e |-> -52]

\* x < y on positive normal doubles
FLess(x, y) ==
    \/ x.e < y.e
    \/ /\ x.e = y.e
       /\ \E i \in 1..4 : /\ x.m[i] < y.m[i]
                          /\ \A j \in 1..(i - 1) : x.m[j] = y.m[j]

\* Python max(x, y): y if y > x else x
FMax(x, y) == IF FLess(x, y) THEN y ELSE x

\* the value of a singleton set: in The({f(v) : v \in {e}}) the value of
\* e is computed once and used in f as often as needed
The(S) == CHOOSE v \in S : TRUE

\* the seven column sums of the schoolbook product of two significands,
\* least significant first; each is below 2^30
Columns(a, b) ==
    <<a[4] * b[4],
      a[4] * b[3] + a[3] * b[4],
      a[4] * b[2] + a[3] * b[3] + a[2] * b[4],
      a[4] * b[1] + a[3] * b[2] + a[2] * b[3] + a[1] * b[4],
      a[3] * b[1] + a[2] * b[2] + a[1] * b[3],
      a[2] * b[1] + a[1] * b[2],
      a[1] * b[1]>>

\* carry propagation over the column sums: the eight limbs of the product,
\* least significant first
Limbs(cols) ==
    The({The({The({The({The({The({The({
        <<c1 % LimbBase, c2 % LimbBase, c3 % LimbBase, c4 % LimbBase,
          c5 % LimbBase, c6 % LimbBase, c7 % LimbBase, c7 \div LimbBase>> :
        c7 \in {cols[7] + (c6 \div LimbBase)}}) :
        c6 \in {cols[6] + (c5 \div LimbBase)}}) :
        c5 \in {cols[5] + (c4 \div LimbBase)}}) :
        c4 \in {cols[4] + (c3 \div LimbBase)}}) :
        c3 \in {cols[3] + (c2 \div LimbBase)}}) :
        c2 \in {cols[2] + (c1 \div LimbBase)}}) :
        c1 \in {cols[1]}})

\* p with its low three limbs and lo = 2^r bits of the fourth dropped
\* (hi = 2^(14 - r)), plus one when up: the limbs of the rounded
\* significand, least significant first, the last one below 2^11 + 1
Shifted(p, lo, hi, up) ==
    The({The({The({The({<<s1 % LimbBase, s2 % LimbBase, s3 % LimbBase, s4>> :
        s4 \in {(p[7] \div lo) + (p[8] % lo) * hi + (s3 \div LimbBase)}}) :
        s3 \in {(p[6] \div lo) + (p[7] % lo) * hi + (s2 \div LimbBase)}}) :
        s2 \in {(p[5] \div lo) + (p[6] % lo) * hi + (s1 \div LimbBase)}}) :
        s1 \in {(p[4] \div lo) + (p[5] % lo) * hi + (IF up THEN 1 ELSE 0)}})

\* round to nearest, ties to even: the dropped part is more than half a
\* unit of the last place kept, or exactly half and the last place is odd
RoundsUp(p, lo, hi) ==
    /\ (p[4] \div (lo \div 2)) % 2 = 1
    /\ \/ p[4] % (lo \div 2) # 0
       \/ p[1] # 0 \/ p[2] # 0 \/ p[3] # 0
       \/ ((p[4] \div lo) + (p[5] % lo) * hi) % 2 = 1

\* the double nearest to p * 2^e, p a product of two significands in eight
\* limbs: p has 105 or 106 bits, of which r = 10 or 11 bits of the fourth
\* limb and the three limbs below it are dropped
Rounded(p, e, r, lo, hi) ==
    The({IF s[4] = 2048
         THEN [m |-> <<1024, 0, 0, 0>>, e |-> e + 42 + r + 1]
         ELSE [m |-> <<s[4], s[3], s[2], s[1]>>, e |-> e + 42 + r] :
         s \in {Shifted(p, lo, hi, RoundsUp(p, lo, hi))}})

\* float('inf'), kept as the value 2^1024 so that it compares above every
\* finite double; the largest finite double is (2^53 - 1) * 2^971
FInf == [m |-> <<1024, 0, 0, 0>>, e |-> 972]

\* a rounded result beyond the largest finite double is inf
Overflowed(x) == IF x.e >= FInf.e THEN FInf ELSE x

\* x * y for positive x and y, correctly rounded (round to nearest, ties to
\* even); inf * y is inf
FMul(x, y) ==
    The({IF u = FInf \/ v = FInf THEN FInf
         ELSE The({Overflowed(IF p[8] >= 128
                              THEN Rounded(p, u.e + v.e, 11, 2048, 8)
                              ELSE Rounded(p, u.e + v.e, 10, 1024, 16)) :
                   p \in {Limbs(Columns(u.m, v.m))}}) :
         u \in {x}, v \in {y}})

(***************************************************************************)
(* Inputs.  Session identifiers and topic names are caller-supplied        *)
(* strings; the sets below contain identifiers where one is a prefix of    *)
(* the other and names that contain '_'.  A confidence is a float in       *)
(* [0, 1]; it is only ever compared with the literal 0.7, so it is kept    *)
(* as its number of tenths (5 is 0.5, 7 is 0.7).                           *)
(***************************************************************************)
Sessions == {<<"a">>, <<"a", "_", "b">>}
Topics == {<<"c">>, <<"b", "_", "c">>}
Confidences == {5, 7}

SeqsUpTo(S, n) == UNION {[1..k -> S] : k \in 0..n}

\* an outcome without topics contributes nothing whatever its flag and
\* confidence are, so one such outcome stands for all of them
Outcomes == [topics : SeqsUpTo(Topics, MaxTopicsPerOutcome) \ {<<>>},
             is_correct : BOOLEAN,
             confidence : Confidences]
            \cup {[topics |-> <<>>, is_correct |-> FALSE, confidence |-> 5]}

RECURSIVE NumRefs(_)
NumRefs(results) ==
    IF results = <<>> THEN 0
    ELSE Len(Head(results).topics) + NumRefs(Tail(results))

\* batches of at most MaxBatch outcomes that reference at most
\* MaxTopicsPerOutcome topic names in total
Batches == {b \in SeqsUpTo(Outcomes, MaxBatch) :
              NumRefs(b) <= MaxTopicsPerOutcome}

\* value of the key "study_recommendation" while the dict has no such key
NoKey == "<no key>"

VARIABLES
    priority_queues,  \* self.priority_queues: session_id -> list of records
    topics,           \* self._topics: insertion-ordered dict key -> record
    heap,             \* the record dicts; a reference is an index
    now,              \* the value datetime.utcnow() returns
    submitted,        \* history: the <<session, topic name>> pairs that
                      \* submissions have referenced, and the sessions
                      \* that update_priorities was called for
    calls,            \* history: the number of calls made so far
    tasks,            \* the coroutines of the callers that are under way:
                      \* arguments, position, locals and return value
    running           \* the task that the event loop is executing, or 0

vars == <<priority_queues, topics, heap, now, submitted, calls, tasks,
          running>>

(***************************************************************************)
(* Strings and the _topics dict.                                           *)
(***************************************************************************)
\* f"{session_id}_{topic_name}"
TopicKey(session_id, topic_name) == session_id \o <<"_">> \o topic_name

\* key.startswith(prefix)
StartsWith(key, prefix) ==
    /\ Len(prefix) <= Len(key)
    /\ SubSeq(key, 1, Len(prefix)) = prefix

\* key in d
HasKey(d, key) == \E i \in 1..Len(d) : d[i].key = key

\* d[key]
Lookup(d, key) == d[CHOOSE i \in 1..Len(d) : d[i].key = key].ref

\* d[key] = ref: an existing key keeps its position, a new key goes last
SetItem(d, key, ref) ==
    IF HasKey(d, key)
    THEN [i \in 1..Len(d) |-> IF d[i].key = key
                              THEN [key |-> key, ref |-> ref] ELSE d[i]]
    ELSE Append(d, [key |-> key, ref |-> ref])

(***************************************************************************)
(* _calculate_priority_score.  success_rate is the double nearest to       *)
(* questions_correct / questions_attempted; for counters below 2^50 it     *)
(* compares with the literals 0.8, 0.6, 0.3 exactly as the rational does   *)
(* (a quotient equal to k/10 rounds to the literal's double, any other is  *)
(* many ulps away), so the comparisons are made on the integers.           *)
(***************************************************************************)
\* _calculate_priority_score with ">= 0.8" written for "> 0.8"
calculate_priority_score_geq(topic, is_correct, confidence) ==
    LET base_score == topic.priority_score
        questions_attempted == topic.questions_attempted
        questions_correct == topic.questions_correct
        new_score ==
            IF is_correct
            THEN IF 10 * questions_correct >= 8 * questions_attempted
                 THEN FMul(base_score, F_0_7)
                 ELSE IF 10 * questions_correct > 6 * questions_attempted
                 THEN FMul(base_score, F_0_9)
                 ELSE base_score
            ELSE IF 10 * questions_correct < 3 * questions_attempted
                 THEN FMul(base_score, F_1_5)
                 ELSE IF 10 * questions_correct < 6 * questions_attempted
                 THEN FMul(base_score, F_1_2)
                 ELSE FMul(base_score, F_1_1)
        adjusted == IF confidence < 7 THEN FMul(new_score, F_1_1)
                    ELSE new_score
    IN  IF questions_attempted = 0
        THEN base_score
        ELSE FMax(adjusted, F_0_1)

\* _calculate_priority_score without the final max(new_score, 0.1)
calculate_priority_score_unclamped(topic, is_correct, confidence) ==
    LET base_score == topic.priority_score
        questions_attempted == topic.questions_attempted
        questions_correct == topic.questions_correct
        new_score ==
            IF is_correct
            THEN IF 10 * questions_correct > 8 * questions_attempted
                 THEN FMul(base_score, F_0_7)
                 ELSE IF 10 * questions_correct > 6 * questions_attempted
                 THEN FMul(base_score, F_0_9)
                 ELSE base_score
            ELSE IF 10 * questions_correct < 3 * questions_attempted
                 THEN FMul(base_score, F_1_5)
                 ELSE IF 10 * questions_correct < 6 * questions_attempted
                 THEN FMul(base_score, F_1_2)
                 ELSE FMul(base_score, F_1_1)
        adjusted == IF confidence < 7 THEN FMul(new_score, F_1_1)
                    ELSE new_score
    IN  IF questions_attempted = 0
        THEN base_score
        ELSE adjusted

\* _calculate_priority_score with a ceiling of 16.0 on the result
calculate_priority_score_capped(topic, is_correct, confidence) ==
    LET base_score == topic.priority_score
        questions_attempted == topic.questions_attempted
        questions_correct == topic.questions_correct
        new_score ==
            IF is_correct
            THEN IF 10 * questions_correct > 8 * questions_attempted
                 THEN FMul(base_score, F_0_7)
                 ELSE IF 10 * questions_correct > 6 * questions_attempted
                 THEN FMul(base_score, F_0_9)
                 ELSE base_score
            ELSE IF 10 * questions_correct < 3 * questions_attempted
                 THEN FMul(base_score, F_1_5)
                 ELSE IF 10 * questions_correct < 6 * questions_attempted
                 THEN FMul(base_score, F_1_2)
                 ELSE FMul(base_score, F_1_1)
        adjusted == IF confidence < 7 THEN FMul(new_score, F_1_1)
                    ELSE new_score
        ceiling == [m |-> <<1024, 0, 0, 0>>, e |-> -48]
    IN  IF questions_attempted = 0
        THEN base_score
        ELSE IF FLess(ceiling, FMax(adjusted, F_0_1))
             THEN ceiling ELSE FMax(adjusted, F_0_1)

calculate_priority_score(topic, is_correct, confidence) ==
    LET base_score == topic.priority_score
        questions_attempted == topic.questions_attempted
        questions_correct == topic.questions_correct
        new_score ==
            IF is_correct
            THEN IF 10 * questions_correct > 8 * questions_attempted
                 THEN FMul(base_score, F_0_7)
                 ELSE IF 10 * questions_correct > 6 * questions_attempted
                 THEN FMul(base_score, F_0_9)
                 ELSE base_score
            ELSE IF 10 * questions_correct < 3 * questions_attempted
                 THEN FMul(base_score, F_1_5)
                 ELSE IF 10 * questions_correct < 6 * questions_attempted
                 THEN FMul(base_score, F_1_2)
                 ELSE FMul(base_score, F_1_1)
        adjusted == IF confidence < 7 THEN FMul(new_score, F_1_1)
                    ELSE new_score
    IN  IF questions_attempted = 0
        THEN base_score
        ELSE FMax(adjusted, F_0_1)

(***************************************************************************)
(* A store is the pair [topics, heap] that the helpers read and write.     *)
(***************************************************************************)
\* _get_or_create_topic: the store afterwards and the reference returned
get_or_create_topic(st, session_id, topic_name, t) ==
    LET topic_key == TopicKey(session_id, topic_name)
    IN  IF HasKey(st.topics, topic_key)
        THEN [st |-> st, ref |-> Lookup(st.topics, topic_key)]
        ELSE LET new_topic == [id |-> Len(st.heap) + 1,
                               name |-> topic_name,
                               priority_score |-> F_1_0,
                               questions_attempted |-> 0,
                               questions_correct |-> 0,
                               last_practiced |-> t,
                               study_recommendation |-> NoKey]
                 ref == Len(st.heap) + 1
             IN  [st |-> [topics |-> SetItem(st.topics, topic_key, ref),
                          heap |-> Append(st.heap, new_topic)],
                  ref |-> ref]

\* _store_topic: the key is built from the record's own name
store_topic(st, session_id, ref) ==
    [st EXCEPT !.topics =
        SetItem(st.topics, TopicKey(session_id, st.heap[ref].name), ref)]

\* _update_topic_priority that restarts questions_correct on a wrong answer
update_topic_priority_streak(st, session_id, topic_name, is_correct, confidence, t) ==
    LET got == get_or_create_topic(st, session_id, topic_name, t)
        topic == got.st.heap[got.ref]
        new_score == calculate_priority_score(topic, is_correct, confidence)
        updated == [topic EXCEPT
                      !.priority_score = new_score,
                      !.questions_attempted = @ + 1,
                      !.questions_correct = IF is_correct THEN @ + 1 ELSE 0,
                      !.last_practiced = t]
    IN  store_topic([got.st EXCEPT !.heap[got.ref] = updated],
                    session_id, got.ref)

\* _update_topic_priority
update_topic_priority(st, session_id, topic_name, is_correct, confidence, t) ==
    LET got == get_or_create_topic(st, session_id, topic_name, t)
        topic == got.st.heap[got.ref]
        new_score == calculate_priority_score(topic, is_correct, confidence)
        updated == [topic EXCEPT
                      !.priority_score = new_score,
                      !.questions_attempted = @ + 1,
                      !.questions_correct = IF is_correct THEN @ + 1 ELSE @,
                      !.last_practiced = t]
    IN  store_topic([got.st EXCEPT !.heap[got.ref] = updated],
                    session_id, got.ref)

\* for topic_name in topics: await self._update_topic_priority(...)
RECURSIVE UpdateTopics(_, _, _, _, _, _)
UpdateTopics(st, session_id, names, is_correct, confidence, t) ==
    IF names = <<>> THEN st
    ELSE UpdateTopics(
             update_topic_priority(st, session_id, Head(names),
                                   is_correct, confidence, t),
             session_id, Tail(names), is_correct, confidence, t)

\* the loop over question_results that takes the last outcome first
RECURSIVE ProcessResults_last_first(_, _, _, _)
ProcessResults_last_first(st, session_id, question_results, t) ==
    IF question_results = <<>> THEN st
    ELSE LET analysis == question_results[Len(question_results)]
         IN  ProcessResults_last_first(
                 UpdateTopics(st, session_id, analysis.topics,
                              analysis.is_correct, analysis.confidence, t),
                 session_id,
                 SubSeq(question_results, 1, Len(question_results) - 1), t)

\* for result in question_results: ...
RECURSIVE ProcessResults(_, _, _, _)
ProcessResults(st, session_id, question_results, t) ==
    IF question_results = <<>> THEN st
    ELSE LET analysis == Head(question_results)
         IN  ProcessResults(
                 UpdateTopics(st, session_id, analysis.topics,
                              analysis.is_correct, analysis.confidence, t),
                 session_id, Tail(question_results), t)

(***************************************************************************)
(* _rebuild_queue: the records whose key starts with session_id, in dict   *)
(* order, then list.sort(key = priority_score, reverse = True), which is   *)
(* stable: equal scores keep their relative order.                         *)
(***************************************************************************)
RECURSIVE SessionTopics(_, _)
SessionTopics(d, session_id) ==
    IF d = <<>> THEN <<>>
    ELSE IF StartsWith(Head(d).key, session_id)
         THEN <<Head(d).ref>> \o SessionTopics(Tail(d), session_id)
         ELSE SessionTopics(Tail(d), session_id)

\* insert ref behind every element whose score is not smaller
InsertSorted(h, sorted, ref) ==
    LET before == {i \in 1..Len(sorted) :
                     \A j \in 1..i :
                        ~FLess(h[sorted[j]].priority_score,
                               h[ref].priority_score)}
        n == Cardinality(before)
    IN  SubSeq(sorted, 1, n) \o <<ref>> \o SubSeq(sorted, n + 1, Len(sorted))

RECURSIVE SortDescending(_, _, _)
SortDescending(h, refs, sorted) ==
    IF refs = <<>> THEN sorted
    ELSE SortDescending(h, Tail(refs), InsertSorted(h, sorted, Head(refs)))

rebuild_queue(st, session_id) ==
    SortDescending(st.heap, SessionTopics(st.topics, session_id), <<>>)

\* self.priority_queues[session_id] = value
SetQueue(pq, session_id, value) ==
    [x \in DOMAIN pq \cup {session_id} |->
        IF x = session_id THEN value ELSE pq[x]]

RECURSIVE SumAttempted(_, _)
SumAttempted(h, n) ==
    IF n = 0 THEN 0 ELSE h[n].questions_attempted + SumAttempted(h, n - 1)

TotalAttempted(h) == SumAttempted(h, Len(h))

RECURSIVE NamesOf(_)
NamesOf(results) ==
    IF results = <<>> THEN {}
    ELSE {Head(results).topics[i] : i \in 1..Len(Head(results).topics)}
         \cup NamesOf(Tail(results))

(***************************************************************************)
(* The operations.                                                         *)
(***************************************************************************)
Init ==
    /\ priority_queues = <<>>
    /\ topics = <<>>
    /\ heap = <<>>
    /\ now = 0
    /\ submitted = [pairs |-> {}, sessions |-> {}]
    /\ calls = 0
    /\ tasks = <<>>
    /\ running = 0

update_priorities(session_id, question_results) ==
    LET st == ProcessResults([topics |-> topics, heap |-> heap],
                             session_id, question_results, now)
    IN  /\ topics' = st.topics
        /\ heap' = st.heap
        /\ priority_queues' = SetQueue(priority_queues, session_id,
                                       rebuild_queue(st, session_id))
        /\ submitted' =
             [pairs |-> submitted.pairs \cup
                        {<<session_id, n>> : n \in NamesOf(question_results)},
              sessions |-> submitted.sessions \cup {session_id}]
        /\ UNCHANGED now

\* _generate_study_recommendation with "> 0.8" written for ">= 0.8"
generate_study_recommendation_gt(topic) ==
    IF topic.questions_attempted > 0
       /\ 10 * topic.questions_correct > 8 * topic.questions_attempted
    THEN "Review briefly - you're doing well!"
    ELSE IF topic.questions_attempted > 0
            /\ 10 * topic.questions_correct >= 6 * topic.questions_attempted
    THEN "Practice more problems - you're on the right track"
    ELSE IF topic.questions_attempted > 0
            /\ 10 * topic.questions_correct >= 4 * topic.questions_attempted
    THEN "Focus on this topic - review concepts and practice"
    ELSE "High priority - review fundamentals and practice extensively"

generate_study_recommendation(topic) ==
    IF topic.questions_attempted > 0
       /\ 10 * topic.questions_correct >= 8 * topic.questions_attempted
    THEN "Review briefly - you're doing well!"
    ELSE IF topic.questions_attempted > 0
            /\ 10 * topic.questions_correct >= 6 * topic.questions_attempted
    THEN "Practice more problems - you're on the right track"
    ELSE IF topic.questions_attempted > 0
            /\ 10 * topic.questions_correct >= 4 * topic.questions_attempted
    THEN "Focus on this topic - review concepts and practice"
    ELSE "High priority - review fundamentals and practice extensively"

\* the list get_priorities works on: the stored queue, rebuilt first when
\* the session has none
PrioritiesOf(session_id) ==
    IF session_id \in DOMAIN priority_queues
    THEN priority_queues[session_id]
    ELSE rebuild_queue([topics |-> topics, heap |-> heap], session_id)

\* the heap after the loop that writes topic["study_recommendation"]
Annotated(h, refs) ==
    [r \in 1..Len(h) |->
        IF \E i \in 1..Len(refs) : refs[i] = r
        THEN [h[r] EXCEPT
                !.study_recommendation = generate_study_recommendation(h[r])]
        ELSE h[r]]

\* what get_priorities(session_id) returns when called in this state:
\* the records of the list, read after the annotation
Returned(session_id) ==
    LET priorities == PrioritiesOf(session_id)
        h == Annotated(heap, priorities)
    IN  [i \in 1..Len(priorities) |-> h[priorities[i]]]

get_priorities(session_id) ==
    /\ priority_queues' = SetQueue(priority_queues, session_id,
                                   PrioritiesOf(session_id))
    /\ heap' = Annotated(heap, PrioritiesOf(session_id))
    /\ UNCHANGED <<topics, now, submitted>>

\* reset_priorities without the line that clears questions_correct
reset_priorities_keeps_correct(session_id) ==
    LET h == [r \in 1..Len(heap) |->
                IF \E i \in 1..Len(topics) :
                      /\ topics[i].ref = r
                      /\ StartsWith(topics[i].key, session_id)
                THEN [heap[r] EXCEPT !.priority_score = F_1_0,
                                     !.questions_attempted = 0,
                                     !.last_practiced = now]
                ELSE heap[r]]
    IN  /\ heap' = h
        /\ priority_queues' =
             SetQueue(priority_queues, session_id,
                      rebuild_queue([topics |-> topics, heap |-> h],
                                    session_id))
        /\ UNCHANGED <<topics, now, submitted>>

\* reset_priorities without the line that restores priority_score
reset_priorities_keeps_score(session_id) ==
    LET h == [r \in 1..Len(heap) |->
                IF \E i \in 1..Len(topics) :
                      /\ topics[i].ref = r
                      /\ StartsWith(topics[i].key, session_id)
                THEN [heap[r] EXCEPT !.questions_attempted = 0,
                                     !.questions_correct = 0,
                                     !.last_practiced = now]
                ELSE heap[r]]
    IN  /\ heap' = h
        /\ priority_queues' =
             SetQueue(priority_queues, session_id,
                      rebuild_queue([topics |-> topics, heap |-> h],
                                    session_id))
        /\ UNCHANGED <<topics, now, submitted>>

\* the loop of reset_priorities without the line that restores
\* priority_score
ResetRecords_keeps_score(h, d, session_id, t) ==
    [r \in 1..Len(h) |->
        IF \E i \in 1..Len(d) :
              /\ d[i].ref = r
              /\ StartsWith(d[i].key, session_id)
        THEN [h[r] EXCEPT !.questions_attempted = 0,
                          !.questions_correct = 0,
                          !.last_practiced = t]
        ELSE h[r]]

\* the loop of reset_priorities: the records under the keys that start
\* with session_id, written with the defaults at time t
ResetRecords(h, d, session_id, t) ==
    [r \in 1..Len(h) |->
        IF \E i \in 1..Len(d) :
              /\ d[i].ref = r
              /\ StartsWith(d[i].key, session_id)
        THEN [h[r] EXCEPT !.priority_score = F_1_0,
                          !.questions_attempted = 0,
                          !.questions_correct = 0,
                          !.last_practiced = t]
        ELSE h[r]]

\* reset_priorities that rebuilds the queue before it resets the records
AfterReset_sorts_first(e, session_id, t) ==
    [topics |-> e.topics,
     heap |-> ResetRecords(e.heap, e.topics, session_id, t),
     priority_queues |->
         SetQueue(e.priority_queues, session_id,
                  rebuild_queue([topics |-> e.topics, heap |-> e.heap],
                                session_id))]

\* the engine [topics, heap, priority_queues] after reset_priorities
AfterReset(e, session_id, t) ==
    [topics |-> e.topics,
     heap |-> ResetRecords(e.heap, e.topics, session_id, t),
     priority_queues |->
         SetQueue(e.priority_queues, session_id,
                  rebuild_queue([topics |-> e.topics,
                                 heap |-> ResetRecords(e.heap, e.topics,
                                                       session_id, t)],
                                session_id))]

reset_priorities(session_id) ==
    LET e == AfterReset([topics |-> topics, heap |-> heap,
                         priority_queues |-> priority_queues],
                        session_id, now)
    IN  /\ heap' = e.heap
        /\ priority_queues' = e.priority_queues
        /\ UNCHANGED <<topics, now, submitted>>

\* time passes between two calls
Tick ==
    /\ now < MaxTime
    /\ now' = now + 1
    /\ UNCHANGED <<priority_queues, topics, heap, submitted, calls>>

\* a call made by a caller that awaits it before it makes the next one
Alone == UNCHANGED <<tasks, running>>

\* one more call, while the behaviour has calls left
Counted ==
    /\ calls < MaxCalls
    /\ calls' = calls + 1

Next ==
    \/ /\ Counted
       /\ \E s \in Sessions, b \in Batches :
             /\ TotalAttempted(heap) + NumRefs(b) <= MaxAttempts
             /\ update_priorities(s, b)
       /\ Alone
    \/ /\ Counted
       /\ \E s \in Sessions : get_priorities(s)
       /\ Alone
    \/ /\ Counted
       /\ \E s \in Sessions : reset_priorities(s)
       /\ Alone
    \/ Tick /\ Alone

Spec == Init /\ [][Next]_vars

(***************************************************************************)
(* One session practising one topic, one outcome per call and as many      *)
(* calls as MaxStreak allows: the behaviours in which a score of 1.0 is    *)
(* driven through every branch of the update rule and down to the floor.   *)
(***************************************************************************)
TheSession == <<"a">>
TheTopic == <<"c">>

SingleOutcomes == {o \in Outcomes : o.topics = <<TheTopic>>}

NextOneTopic ==
    \/ /\ \E o \in SingleOutcomes :
             /\ TotalAttempted(heap) < MaxStreak
             /\ update_priorities(TheSession, <<o>>)
       /\ UNCHANGED calls
       /\ Alone
    \/ get_priorities(TheSession) /\ UNCHANGED calls /\ Alone
    \/ reset_priorities(TheSession) /\ UNCHANGED calls /\ Alone

OneTopic == Init /\ [][NextOneTopic]_vars

(***************************************************************************)
(* Two callers at once.  app.py awaits the service from request handlers   *)
(* that are coroutines of one event loop, so a call is a task of that      *)
(* loop: it runs until it suspends or returns, and only then does the loop *)
(* resume another task.  A task's position is the block of statements it   *)
(* executes next:                                                          *)
(*   "ready"     update_priorities, get_priorities: the membership test    *)
(*   "lookup"    _get_or_create_topic: the key and the test for it         *)
(*   "create"    _get_or_create_topic: the new dict and its storing        *)
(*   "commit"    _update_topic_priority: the score and the counters        *)
(*   "store"     _store_topic                                              *)
(*   "rebuild"   _rebuild_queue at the end of update_priorities            *)
(*   "annotate"  get_priorities: the recommendations and the return        *)
(***************************************************************************)
TaskIds == {1, 2}

\* what the callers submit: outcomes of one topic with the default
\* confidence, at most MaxTaskRefs of them in a batch
TaskOutcomes == {o \in Outcomes : Len(o.topics) = 1 /\ o.confidence = 5}
TaskBatches == SeqsUpTo(TaskOutcomes, MaxTaskRefs)

\* the topic reference after the j-th one of the i-th result; i is beyond
\* the results when there is none
RECURSIVE Advance(_, _, _)
Advance(results, i, j) ==
    IF i > Len(results) THEN [i |-> i, j |-> 0]
    ELSE IF j < Len(results[i].topics) THEN [i |-> i, j |-> j + 1]
    ELSE Advance(results, i + 1, 0)

\* the task at its next topic reference, or at the rebuild after the last
AtNext(t) ==
    LET n == Advance(t.question_results, t.i, t.j)
    IN  [t EXCEPT !.i = n.i, !.j = n.j,
                  !.pc = IF n.i > Len(t.question_results)
                         THEN "rebuild" ELSE "lookup"]

NewTask(op, session_id, question_results) ==
    [op |-> op, session_id |-> session_id,
     question_results |-> question_results,
     pc |-> "ready", i |-> 1, j |-> 0, ref |-> 0, ret |-> <<>>]

\* the positions after whose block the coroutine hands control back to
\* the event loop, had the lookup been a query that suspends
SuspensionPoints_query == {"lookup"}

\* the positions after whose block the coroutine hands control back to
\* the event loop, had the storing been a write that suspends
SuspensionPoints_store == {"store"}

\* the positions after whose block the coroutine hands control back to
\* the event loop: every await of the service awaits a coroutine of the
\* service, and none of them awaits anything else, so there are none
SuspensionPoints == {}

\* task k has executed a block and is now as t says
Moved(k, t) ==
    /\ tasks' = [tasks EXCEPT ![k] = t]
    /\ running' = IF t.pc = "done" \/ tasks[k].pc \in SuspensionPoints
                  THEN 0 ELSE k

\* the event loop resumes a task
Resume(k) ==
    /\ running = 0
    /\ tasks[k].pc # "done"
    /\ running' = k
    /\ UNCHANGED <<priority_queues, topics, heap, now, submitted, calls,
                   tasks>>

\* update_priorities, lines 12-13
BeginUpdate(k) ==
    /\ running = k
    /\ tasks[k].op = "update"
    /\ tasks[k].pc = "ready"
    /\ priority_queues' =
          IF tasks[k].session_id \in DOMAIN priority_queues
          THEN priority_queues
          ELSE SetQueue(priority_queues, tasks[k].session_id, <<>>)
    /\ Moved(k, AtNext(tasks[k]))
    /\ UNCHANGED <<topics, heap, now, submitted, calls>>

\* the topic name a task is at
NameAt(t) == t.question_results[t.i].topics[t.j]

\* _get_or_create_topic, lines 107-111
LookUp(k) ==
    /\ running = k
    /\ tasks[k].pc = "lookup"
    /\ LET topic_key == TopicKey(tasks[k].session_id, NameAt(tasks[k]))
       IN  IF HasKey(topics, topic_key)
           THEN Moved(k, [tasks[k] EXCEPT !.ref = Lookup(topics, topic_key),
                                          !.pc = "commit"])
           ELSE Moved(k, [tasks[k] EXCEPT !.pc = "create"])
    /\ UNCHANGED <<priority_queues, topics, heap, now, submitted, calls>>

\* _get_or_create_topic, lines 113-128
Create(k) ==
    /\ running = k
    /\ tasks[k].pc = "create"
    /\ heap' = Append(heap, [id |-> Len(heap) + 1,
                             name |-> NameAt(tasks[k]),
                             priority_score |-> F_1_0,
                             questions_attempted |-> 0,
                             questions_correct |-> 0,
                             last_practiced |-> now,
                             study_recommendation |-> NoKey])
    /\ topics' = SetItem(topics,
                         TopicKey(tasks[k].session_id, NameAt(tasks[k])),
                         Len(heap) + 1)
    /\ Moved(k, [tasks[k] EXCEPT !.ref = Len(heap) + 1, !.pc = "commit"])
    /\ UNCHANGED <<priority_queues, now, submitted, calls>>

\* _update_topic_priority, lines 46-53
Commit(k) ==
    /\ running = k
    /\ tasks[k].pc = "commit"
    /\ LET topic == heap[tasks[k].ref]
           analysis == tasks[k].question_results[tasks[k].i]
           new_score == calculate_priority_score(topic, analysis.is_correct,
                                                 analysis.confidence)
       IN  heap' = [heap EXCEPT ![tasks[k].ref] =
                       [topic EXCEPT
                          !.priority_score = new_score,
                          !.questions_attempted = @ + 1,
                          !.questions_correct =
                              IF analysis.is_correct THEN @ + 1 ELSE @,
                          !.last_practiced = now]]
    /\ Moved(k, [tasks[k] EXCEPT !.pc = "store"])
    /\ UNCHANGED <<priority_queues, topics, now, submitted, calls>>

\* _store_topic, lines 130-135
Store(k) ==
    /\ running = k
    /\ tasks[k].pc = "store"
    /\ topics' = SetItem(topics,
                         TopicKey(tasks[k].session_id,
                                  heap[tasks[k].ref].name),
                         tasks[k].ref)
    /\ Moved(k, AtNext(tasks[k]))
    /\ UNCHANGED <<priority_queues, heap, now, submitted, calls>>

\* _rebuild_queue called from update_priorities, line 32
Rebuild(k) ==
    /\ running = k
    /\ tasks[k].pc = "rebuild"
    /\ priority_queues' =
          SetQueue(priority_queues, tasks[k].session_id,
                   rebuild_queue([topics |-> topics, heap |-> heap],
                                 tasks[k].session_id))
    /\ Moved(k, [tasks[k] EXCEPT !.pc = "done"])
    /\ UNCHANGED <<topics, heap, now, submitted, calls>>

\* get_priorities, lines 154-155
BeginGet(k) ==
    /\ running = k
    /\ tasks[k].op = "get"
    /\ tasks[k].pc = "ready"
    /\ priority_queues' = SetQueue(priority_queues, tasks[k].session_id,
                                   PrioritiesOf(tasks[k].session_id))
    /\ Moved(k, [tasks[k] EXCEPT !.pc = "annotate"])
    /\ UNCHANGED <<topics, heap, now, submitted, calls>>

\* get_priorities, lines 157-163; ret is the list as the caller reads it
\* at the return
Annotate(k) ==
    /\ running = k
    /\ tasks[k].pc = "annotate"
    /\ heap' = Annotated(heap, priority_queues[tasks[k].session_id])
    /\ Moved(k, [tasks[k] EXCEPT !.ret = Returned(tasks[k].session_id),
                                 !.pc = "done"])
    /\ UNCHANGED <<priority_queues, topics, now, submitted, calls>>

\* both callers have made their calls before the loop runs either
InitConcurrent ==
    /\ priority_queues = <<>>
    /\ topics = <<>>
    /\ heap = <<>>
    /\ now = 0
    /\ submitted = [pairs |-> {}, sessions |-> {}]
    /\ calls = 0
    /\ running = 0
    /\ \E s1 \in Sessions, s2 \in Sessions, b1 \in TaskBatches,
          b2 \in TaskBatches, op2 \in {"update", "get"} :
          tasks = <<NewTask("update", s1, b1),
                    NewTask(op2, s2, IF op2 = "get" THEN <<>> ELSE b2)>>

NextConcurrent ==
    \E k \in TaskIds :
       \/ Resume(k)
       \/ BeginUpdate(k)
       \/ LookUp(k)
       \/ Create(k)
       \/ Commit(k)
       \/ Store(k)
       \/ Rebuild(k)
       \/ BeginGet(k)
       \/ Annotate(k)

Concurrent == InitConcurrent /\ [][NextConcurrent]_vars

\* the engine after update_priorities(session_id, question_results) run
\* alone at time t
AfterUpdate(e, session_id, question_results, t) ==
    LET st == ProcessResults([topics |-> e.topics, heap |-> e.heap],
                             session_id, question_results, t)
    IN  [topics |-> st.topics,
         heap |-> st.heap,
         priority_queues |-> SetQueue(e.priority_queues, session_id,
                                      rebuild_queue(st, session_id))]

EmptyEngine == [topics |-> <<>>, heap |-> <<>>, priority_queues |-> <<>>]

\* a submission to a session and a query of it at once, after an earlier
\* submission has returned; tasks[3] keeps the arguments of that earlier
\* call
InitReading ==
    /\ now = 0
    /\ submitted = [pairs |-> {}, sessions |-> {}]
    /\ calls = 0
    /\ running = 0
    /\ \E s0 \in Sessions, s1 \in Sessions,
          b0 \in TaskBatches, b1 \in TaskBatches :
          /\ tasks = <<NewTask("update", s1, b1),
                       NewTask("get", s1, <<>>),
                       [NewTask("update", s0, b0) EXCEPT !.pc = "done"]>>
          /\ topics = AfterUpdate(EmptyEngine, s0, b0, 0).topics
          /\ heap = AfterUpdate(EmptyEngine, s0, b0, 0).heap
          /\ priority_queues =
                AfterUpdate(EmptyEngine, s0, b0, 0).priority_queues

Reading == InitReading /\ [][NextConcurrent]_vars

(***************************************************************************)
(* Vocabulary of the properties.                                           *)
(***************************************************************************)
\* the record that session_id's lookups of topic_name resolve to
RecordOf(session_id, topic_name) ==
    heap[Lookup(topics, TopicKey(session_id, topic_name))]

\* the fields of a record that a submission or a reset may write
Fields(r) == <<r.id, r.name, r.priority_score, r.questions_attempted,
               r.questions_correct, r.last_practiced>>

\* x >= y on doubles
FGeq(x, y) == ~FLess(x, y)

\* the ids of the records get_priorities(session_id) returns, in order
ReturnedIds(session_id) ==
    [i \in 1..Len(Returned(session_id)) |-> Returned(session_id)[i].id]

(***************************************************************************)
(* C1  Isolation of submissions: update_priorities on session A leaves     *)
(* every record of every other session B unchanged in id, name,            *)
(* priority_score, questions_attempted, questions_correct and              *)
(* last_practiced, whatever the identifiers and topic names are.           *)
(***************************************************************************)
C1_Isolation ==
    [][\A sa \in Sessions, sb \in Sessions, b \in Batches :
          (sa # sb /\ update_priorities(sa, b)) =>
             \A t \in Topics :
                <<sb, t>> \in submitted.pairs =>
                   Fields(RecordOf(sb, t))' = Fields(RecordOf(sb, t))]_vars

(***************************************************************************)
(* C2  Ordering: in every reachable state the list get_priorities(s)       *)
(* returns is sorted by priority_score in non-increasing order.            *)
(***************************************************************************)
C2_Ordering ==
    \A s \in Sessions :
       \A i \in 1..(Len(Returned(s)) - 1) :
          FGeq(Returned(s)[i].priority_score,
               Returned(s)[i + 1].priority_score)

(***************************************************************************)
(* C3  Membership: get_priorities(s) returns exactly the records of        *)
(* session s: the record of every topic submitted to s appears exactly     *)
(* once, and every record returned is the record of a topic submitted      *)
(* to s.                                                                   *)
(***************************************************************************)
C3_Membership ==
    \A s \in Sessions :
       LET ids == ReturnedIds(s)
           own == {RecordOf(s, t).id :
                     t \in {n \in Topics : <<s, n>> \in submitted.pairs}}
       IN  /\ \A x \in own :
                Cardinality({i \in 1..Len(ids) : ids[i] = x}) = 1
           /\ \A i \in 1..Len(ids) : ids[i] \in own

(***************************************************************************)
(* C4  Empty-session query: while no submission has been made for          *)
(* session s, get_priorities(s) returns the empty sequence, whatever has   *)
(* been submitted to other sessions.                                       *)
(***************************************************************************)
C4_EmptySession ==
    \A s \in Sessions :
       s \notin submitted.sessions => Returned(s) = <<>>

(***************************************************************************)
(* The update rule as the specification tabulates it: the factor by        *)
(* two-sided bands of the success rate of the counters before the update,  *)
(* the confidence factor, the products taken left to right in binary64,    *)
(* and the floor.                                                          *)
(***************************************************************************)
RateAbove(topic, tenths) ==
    10 * topic.questions_correct > tenths * topic.questions_attempted

RateBelow(topic, tenths) ==
    10 * topic.questions_correct < tenths * topic.questions_attempted

TabulatedFactor(topic, is_correct) ==
    CASE is_correct /\ RateAbove(topic, 8) -> F_0_7
      [] is_correct /\ RateAbove(topic, 6) /\ ~RateAbove(topic, 8) -> F_0_9
      [] is_correct /\ ~RateAbove(topic, 6) -> F_1_0
      [] ~is_correct /\ RateBelow(topic, 3) -> F_1_5
      [] ~is_correct /\ ~RateBelow(topic, 3) /\ RateBelow(topic, 6) -> F_1_2
      [] ~is_correct /\ ~RateBelow(topic, 6) -> F_1_1

TabulatedScore(topic, is_correct, confidence) ==
    FMax(FMul(FMul(topic.priority_score,
                   TabulatedFactor(topic, is_correct)),
              IF confidence < 7 THEN F_1_1 ELSE F_1_0),
         F_0_1)

\* the one-outcome batch that references one topic
OneOutcome(topic_name, is_correct, confidence) ==
    <<[topics |-> <<topic_name>>, is_correct |-> is_correct,
       confidence |-> confidence]>>

\* one outcome has been processed for a record that had attempts, and the
\* new score is the tabulated one; ex is the score claimed for an
\* incorrect outcome of confidence 0.5 at rate < 0.3 from base 1.0
ScoreRule(ex) ==
    \A ok \in BOOLEAN, c \in Confidences :
       (/\ HasKey(topics, TopicKey(TheSession, TheTopic))
        /\ RecordOf(TheSession, TheTopic).questions_attempted > 0
        /\ update_priorities(TheSession, OneOutcome(TheTopic, ok, c)))
       => LET before == RecordOf(TheSession, TheTopic)
              after == RecordOf(TheSession, TheTopic)'
          IN  /\ after.priority_score = TabulatedScore(before, ok, c)
              /\ (/\ before.priority_score = F_1_0
                  /\ ok /\ RateAbove(before, 8) /\ c >= 7)
                 => after.priority_score = F_0_7
              /\ (/\ before.priority_score = F_1_0
                  /\ ~ok /\ RateBelow(before, 3) /\ c = 5)
                 => after.priority_score = ex

(***************************************************************************)
(* C5  Score update rule, as claimed: for a topic with attempts, one       *)
(* processed outcome sets priority_score to max(base * f * c, 0.1) with f  *)
(* and c from the table; from base 1.0 a correct outcome at rate > 0.8     *)
(* and confidence >= 0.7 gives exactly 0.7, and an incorrect outcome at    *)
(* rate < 0.3 and confidence 0.5 gives exactly 1.65.                       *)
(***************************************************************************)
C5_ScoreRuleExact == [][ScoreRule(F_1_65)]_vars

(***************************************************************************)
(* C5, amended: the same rule with the products rounded as binary64        *)
(* products are; the incorrect outcome at rate < 0.3 and confidence 0.5    *)
(* from base 1.0 gives 1.6500000000000001, the double next above 1.65.     *)
(***************************************************************************)
C5_ScoreRule == [][ScoreRule(F_1_65_next)]_vars

\* the record has had two incorrect outcomes, the second of confidence 0.5
C5_Witness ==
    /\ HasKey(topics, TopicKey(TheSession, TheTopic))
    /\ RecordOf(TheSession, TheTopic).questions_attempted = 2
    /\ RecordOf(TheSession, TheTopic).questions_correct = 0
    /\ RecordOf(TheSession, TheTopic).priority_score = F_1_65_next

(***************************************************************************)
(* C6  First-attempt neutrality: one outcome submitted for a topic that    *)
(* the session has not referenced before leaves the topic's                *)
(* priority_score at 1.0 with questions_attempted = 1, for every           *)
(* correctness flag and every confidence.                                  *)
(***************************************************************************)
C6_FirstAttempt ==
    [][\A s \in Sessions, t \in Topics, ok \in BOOLEAN, c \in Confidences :
          (/\ <<s, t>> \notin submitted.pairs
           /\ update_priorities(s, OneOutcome(t, ok, c)))
          => /\ RecordOf(s, t)'.priority_score = F_1_0
             /\ RecordOf(s, t)'.questions_attempted = 1]_vars

(***************************************************************************)
(* C7  Score floor: in every reachable state every record has              *)
(* priority_score >= 0.1.                                                  *)
(***************************************************************************)
C7_ScoreFloor ==
    \A r \in 1..Len(heap) : FGeq(heap[r].priority_score, F_0_1)

\* a streak of correct answers has driven the score onto the floor
C7_Witness ==
    \E r \in 1..Len(heap) :
       /\ heap[r].priority_score = F_0_1
       /\ heap[r].questions_attempted = MaxStreak
       /\ heap[r].questions_correct = MaxStreak

(***************************************************************************)
(* C8  Counter invariant: in every reachable state every record has        *)
(* 0 <= questions_correct <= questions_attempted.                          *)
(***************************************************************************)
C8_Counters ==
    \A r \in 1..Len(heap) :
       /\ 0 <= heap[r].questions_correct
       /\ heap[r].questions_correct <= heap[r].questions_attempted

\* a record with a right and a wrong answer, and a record that was reset
C8_Witness ==
    /\ \E r \in 1..Len(heap) :
          /\ 0 < heap[r].questions_correct
          /\ heap[r].questions_correct < heap[r].questions_attempted
    /\ \E r \in 1..Len(heap) : heap[r].questions_attempted = 0

(***************************************************************************)
(* C9  Monotonic counters, as claimed: in every step of every behaviour    *)
(* (submissions, queries and resets) questions_attempted and               *)
(* questions_correct of an existing record do not decrease.                *)
(***************************************************************************)
NonDecreasing(r) ==
    /\ heap'[r].questions_attempted >= heap[r].questions_attempted
    /\ heap'[r].questions_correct >= heap[r].questions_correct

C9_Monotonic == [][\A r \in 1..Len(heap) : NonDecreasing(r)]_vars

(***************************************************************************)
(* C9, amended: the counters of an existing record do not decrease in any  *)
(* step except a reset_priorities call, which sets both to 0.              *)
(***************************************************************************)
C9_MonotonicExceptReset ==
    [][\A r \in 1..Len(heap) :
          \/ NonDecreasing(r)
          \/ /\ \E s \in Sessions : reset_priorities(s)
             /\ heap'[r].questions_attempted = 0
             /\ heap'[r].questions_correct = 0]_vars

\* a record whose counters have grown in two calls, one answer right and
\* one wrong
C9_Witness ==
    /\ calls >= 2
    /\ \E r \in 1..Len(heap) :
          /\ heap[r].questions_attempted >= 2
          /\ heap[r].questions_correct >= 1
          /\ heap[r].questions_correct < heap[r].questions_attempted

(***************************************************************************)
(* C10  Reset effect: reset_priorities(s) leaves every record of session   *)
(* s with priority_score 1.0 and both counters 0, keeps its id and name,   *)
(* and neither adds nor removes a record of s.                             *)
(***************************************************************************)
RecordIds(s) ==
    {RecordOf(s, t).id : t \in {n \in Topics : <<s, n>> \in submitted.pairs}}

C10_ResetEffect ==
    [][\A s \in Sessions :
          reset_priorities(s) =>
             /\ \A t \in Topics :
                   <<s, t>> \in submitted.pairs =>
                      /\ RecordOf(s, t)'.priority_score = F_1_0
                      /\ RecordOf(s, t)'.questions_attempted = 0
                      /\ RecordOf(s, t)'.questions_correct = 0
                      /\ RecordOf(s, t)'.id = RecordOf(s, t).id
                      /\ RecordOf(s, t)'.name = RecordOf(s, t).name
             /\ RecordIds(s)' = RecordIds(s)
             /\ Len(heap') = Len(heap)
             /\ topics' = topics]_vars

\* a session after its reset: both of its topics had been submitted, and
\* their two records are back at the defaults
C10_Witness ==
    \E s \in Sessions :
       /\ \A t \in Topics : <<s, t>> \in submitted.pairs
       /\ Cardinality(RecordIds(s)) = 2
       /\ \A t \in Topics :
             /\ RecordOf(s, t).questions_attempted = 0
             /\ RecordOf(s, t).priority_score = F_1_0

(***************************************************************************)
(* C11  Idempotent reset: reset_priorities(s) called again right after     *)
(* reset_priorities(s) leaves every record's priority_score, counters, id  *)
(* and name, the keys and every stored list as the first call left them;   *)
(* only last_practiced may differ.                                         *)
(***************************************************************************)
Engine == [topics |-> topics, heap |-> heap,
           priority_queues |-> priority_queues]

\* an engine with the last_practiced of every record blanked
Timeless(e) ==
    [e EXCEPT !.heap = [r \in 1..Len(e.heap) |->
                           [e.heap[r] EXCEPT !.last_practiced = 0]]]

C11_IdempotentReset ==
    [][\A s \in Sessions :
          reset_priorities(s) =>
             \A t \in now..MaxTime :
                Timeless(AfterReset(Engine', s, t)) = Timeless(Engine')]_vars

\* a session right after the reset of its two records: both are back at
\* zero attempts and its list holds them in the order of the keys
C11_Witness ==
    /\ \A t \in Topics : <<TheSession, t>> \in submitted.pairs
    /\ TotalAttempted(heap) = 0
    /\ Len(heap) = 2
    /\ TheSession \in DOMAIN priority_queues
    /\ priority_queues[TheSession] = <<1, 2>>

(***************************************************************************)
(* C12  get_priorities is a pure read: a call of get_priorities(s), for a  *)
(* known or an unknown session, changes no field of a stored record        *)
(* (study_recommendation is not written on it), creates no record and      *)
(* adds no session entry to the engine's state.                            *)
(***************************************************************************)
C12_PureRead ==
    [][\A s \in Sessions :
          get_priorities(s) => UNCHANGED <<heap, topics, priority_queues>>]_vars

(***************************************************************************)
(* C13  Recommendation tiers: every record get_priorities returns carries  *)
(* the study_recommendation of its rate = questions_correct /              *)
(* questions_attempted at the time of the call (0 without attempts):       *)
(* 'Review briefly' for rate >= 0.8, 'Practice more problems' for          *)
(* 0.6 <= rate < 0.8, 'Focus on this topic' for 0.4 <= rate < 0.6 and      *)
(* 'High priority' for rate < 0.4.                                         *)
(***************************************************************************)
\* rate >= tenths / 10, the rate of a record without attempts being 0
RateAtLeast(topic, tenths) ==
    IF topic.questions_attempted = 0 THEN tenths <= 0
    ELSE 10 * topic.questions_correct >= tenths * topic.questions_attempted

Tier(topic) ==
    CASE RateAtLeast(topic, 8) ->
            "Review briefly - you're doing well!"
      [] RateAtLeast(topic, 6) /\ ~RateAtLeast(topic, 8) ->
            "Practice more problems - you're on the right track"
      [] RateAtLeast(topic, 4) /\ ~RateAtLeast(topic, 6) ->
            "Focus on this topic - review concepts and practice"
      [] ~RateAtLeast(topic, 4) ->
            "High priority - review fundamentals and practice extensively"

C13_Tiers ==
    \A s \in Sessions :
       \A i \in 1..Len(Returned(s)) :
          Returned(s)[i].study_recommendation = Tier(Returned(s)[i])

\* get_priorities has returned a record of rate exactly 4/5
C13_Witness ==
    \E r \in 1..Len(heap) :
       /\ heap[r].questions_attempted = 5
       /\ heap[r].questions_correct = 4
       /\ heap[r].study_recommendation = "Review briefly - you're doing well!"

(***************************************************************************)
(* C14  Serialized same-session submissions: when two update_priorities    *)
(* calls for one session that both reference a topic T run concurrently,   *)
(* the engine ends as after the two calls made one after the other in one  *)
(* of the two orders, and questions_attempted of T has grown by the number *)
(* of outcomes of the two batches that reference T.                        *)
(***************************************************************************)
\* the number of references to topic_name in a batch
RECURSIVE RefsTo(_, _)
RefsTo(results, topic_name) ==
    IF results = <<>> THEN 0
    ELSE Cardinality({j \in 1..Len(Head(results).topics) :
                        Head(results).topics[j] = topic_name})
         + RefsTo(Tail(results), topic_name)

\* both tasks are submissions to one session that share a topic name
SameSessionSubmissions ==
    /\ DOMAIN tasks = TaskIds
    /\ tasks[1].op = "update" /\ tasks[2].op = "update"
    /\ tasks[1].session_id = tasks[2].session_id
    /\ NamesOf(tasks[1].question_results)
          \cap NamesOf(tasks[2].question_results) # {}

BothDone == \A k \in DOMAIN tasks : tasks[k].pc = "done"

C14_Serialized ==
    (SameSessionSubmissions /\ BothDone) =>
       LET s == tasks[1].session_id
           b1 == tasks[1].question_results
           b2 == tasks[2].question_results
       IN  /\ \/ Engine = AfterUpdate(AfterUpdate(EmptyEngine, s, b1, now),
                                      s, b2, now)
              \/ Engine = AfterUpdate(AfterUpdate(EmptyEngine, s, b2, now),
                                      s, b1, now)
           /\ \A n \in NamesOf(b1) \cap NamesOf(b2) :
                 RecordOf(s, n).questions_attempted
                    = RefsTo(b1, n) + RefsTo(b2, n)

\* two concurrent submissions to one session have both returned, each
\* with MaxTaskRefs outcomes of the same topic
C14_Witness ==
    /\ SameSessionSubmissions
    /\ BothDone
    /\ \E n \in Topics :
          /\ RefsTo(tasks[1].question_results, n) = MaxTaskRefs
          /\ RefsTo(tasks[2].question_results, n) = MaxTaskRefs
          /\ RecordOf(tasks[1].session_id, n).questions_attempted
                = 2 * MaxTaskRefs

(***************************************************************************)
(* C15  Atomic batch visibility: a get_priorities(s) call that runs        *)
(* concurrently with an update_priorities(s, batch) call returns the list  *)
(* (records, counters, scores, order) either of the state before the       *)
(* whole batch or of the state after the whole batch.                      *)
(***************************************************************************)
\* what get_priorities(session_id) returns when called on engine e
ReturnedIn(e, session_id) ==
    LET priorities ==
            IF session_id \in DOMAIN e.priority_queues
            THEN e.priority_queues[session_id]
            ELSE rebuild_queue([topics |-> e.topics, heap |-> e.heap],
                               session_id)
        h == Annotated(e.heap, priorities)
    IN  [i \in 1..Len(priorities) |-> h[priorities[i]]]

\* a query of a session has returned, a submission to that session having
\* been pending with it
QueryAnswered ==
    /\ DOMAIN tasks = 1..3
    /\ tasks[2].op = "get"
    /\ tasks[2].pc = "done"
    /\ tasks[1].session_id = tasks[2].session_id

\* the engine before the pending submission
EngineBefore ==
    AfterUpdate(EmptyEngine, tasks[3].session_id, tasks[3].question_results,
                0)

C15_AtomicView ==
    QueryAnswered =>
       LET s == tasks[2].session_id
           after == AfterUpdate(EngineBefore, s, tasks[1].question_results,
                                now)
       IN  \/ tasks[2].ret = ReturnedIn(EngineBefore, s)
           \/ tasks[2].ret = ReturnedIn(after, s)

\* the query has returned the list after a whole batch of MaxTaskRefs
\* outcomes that changed a record the session had before
C15_Witness ==
    /\ QueryAnswered
    /\ tasks[3].session_id = tasks[1].session_id
    /\ Len(tasks[1].question_results) = MaxTaskRefs
    /\ NamesOf(tasks[1].question_results)
          = NamesOf(tasks[3].question_results)
    /\ tasks[2].ret # ReturnedIn(EngineBefore, tasks[2].session_id)
    /\ Len(tasks[2].ret) = 1
    /\ tasks[2].ret[1].questions_attempted > MaxTaskRefs

(***************************************************************************)
(* C16  Record permanence and identity: a record that exists for a         *)
(* session and a topic name exists in every later state with the same id   *)
(* and name, and a record exists for a session and a topic name only       *)
(* after a submission to that session has referenced that name.            *)
(***************************************************************************)
C16_Permanence ==
    [][\A s \in Sessions, t \in Topics :
          /\ HasKey(topics, TopicKey(s, t)) =>
                /\ HasKey(topics', TopicKey(s, t))
                /\ RecordOf(s, t)'.id = RecordOf(s, t).id
                /\ RecordOf(s, t)'.name = RecordOf(s, t).name
          /\ HasKey(topics', TopicKey(s, t)) =>
                <<s, t>> \in submitted'.pairs]_vars

(***************************************************************************)
(* C17  Commit step: one outcome that lists N distinct topics adds         *)
(* exactly 1 to questions_attempted of each of the N records, and 1 to     *)
(* questions_correct of each iff the outcome is correct (0 otherwise),     *)
(* and changes no other record of the session.                             *)
(***************************************************************************)
\* a counter of the record of (session_id, topic_name), 0 while there is
\* no such record
Attempted(session_id, topic_name) ==
    IF HasKey(topics, TopicKey(session_id, topic_name))
    THEN RecordOf(session_id, topic_name).questions_attempted ELSE 0

Correct(session_id, topic_name) ==
    IF HasKey(topics, TopicKey(session_id, topic_name))
    THEN RecordOf(session_id, topic_name).questions_correct ELSE 0

\* the outcomes that list distinct topic names
DistinctOutcomes ==
    {o \in Outcomes :
        /\ o.topics # <<>>
        /\ \A i, j \in 1..Len(o.topics) :
              o.topics[i] = o.topics[j] => i = j}

C17_CommitStep ==
    [][\A s \in Sessions, o \in DistinctOutcomes :
          update_priorities(s, <<o>>) =>
             /\ \A t \in NamesOf(<<o>>) :
                   /\ Attempted(s, t)' = Attempted(s, t) + 1
                   /\ Correct(s, t)'
                         = Correct(s, t) + (IF o.is_correct THEN 1 ELSE 0)
             /\ \A t \in Topics \ NamesOf(<<o>>) :
                   <<s, t>> \in submitted.pairs =>
                      Fields(RecordOf(s, t))' = Fields(RecordOf(s, t))]_vars

(***************************************************************************)
(* C18  Empty contributions: a batch without outcomes, and a batch whose   *)
(* outcomes have no topics, create no record and leave the fields of       *)
(* every record and the order get_priorities returns unchanged.            *)
(***************************************************************************)
C18_EmptyContribution ==
    [][\A s \in Sessions, b \in {x \in Batches : NumRefs(x) = 0} :
          update_priorities(s, b) =>
             /\ heap' = heap
             /\ topics' = topics
             /\ \A x \in Sessions : ReturnedIds(x)' = ReturnedIds(x)]_vars

(***************************************************************************)
(* C19  Tie order: in the list get_priorities(s) returns, of two records   *)
(* of equal priority_score the one created earlier comes first, in every   *)
(* reachable state.  (A record's id is its rank in the order of            *)
(* creation.)                                                              *)
(***************************************************************************)
C19_TieOrder ==
    \A s \in Sessions :
       \A i, j \in 1..Len(Returned(s)) :
          (/\ i < j
           /\ Returned(s)[i].priority_score = Returned(s)[j].priority_score)
          => Returned(s)[i].id <= Returned(s)[j].id

(***************************************************************************)
(* One session answering one topic wrong again and again with confidence   *)
(* 0.5: the behaviour in which the score grows fastest, by 1.5 * 1.1 an    *)
(* outcome, until the double overflows.                                    *)
(***************************************************************************)
NextWrongStreak ==
    /\ TotalAttempted(heap) < MaxWrong
    /\ update_priorities(TheSession, OneOutcome(TheTopic, FALSE, 5))
    /\ UNCHANGED calls
    /\ Alone

WrongStreak == Init /\ [][NextWrongStreak]_vars

\* one incorrect outcome has been processed for a record that had
\* attempts, and its score has grown by a factor of at least 1.1; strictly
\* so unless it was inf already and inf is tolerated
Grown(tolerated) ==
    \A c \in Confidences :
       (/\ HasKey(topics, TopicKey(TheSession, TheTopic))
        /\ RecordOf(TheSession, TheTopic).questions_attempted >= 1
        /\ update_priorities(TheSession, OneOutcome(TheTopic, FALSE, c)))
       => LET before == RecordOf(TheSession, TheTopic).priority_score
              after == RecordOf(TheSession, TheTopic)'.priority_score
          IN  /\ FGeq(after, FMul(before, F_1_1))
              /\ \/ FLess(before, after)
                 \/ tolerated /\ before = FInf /\ after = FInf

(***************************************************************************)
(* C20  Unbounded growth, as claimed: for a topic with                     *)
(* questions_attempted >= 1 every incorrect outcome strictly increases     *)
(* priority_score, by a factor of at least 1.1.                            *)
(***************************************************************************)
C20_StrictGrowth == [][Grown(FALSE)]_vars

(***************************************************************************)
(* C20, amended: every incorrect outcome multiplies priority_score by at   *)
(* least 1.1 and strictly increases it as long as it is finite; a streak   *)
(* of incorrect outcomes takes it above every finite bound, to inf, where  *)
(* it stays.                                                               *)
(***************************************************************************)
C20_GrowthToInf == [][Grown(TRUE)]_vars

\* the streak has taken the score to inf, and one more incorrect outcome
\* has left it there
C20_Witness ==
    /\ HasKey(topics, TopicKey(TheSession, TheTopic))
    /\ RecordOf(TheSession, TheTopic).questions_attempted = MaxWrong
    /\ RecordOf(TheSession, TheTopic).questions_correct = 0
    /\ RecordOf(TheSession, TheTopic).priority_score = FInf

(***************************************************************************)
(* C21  Reset scope: reset_priorities(A) leaves every record of every      *)
(* other session B unchanged (id, name, priority_score, counters,          *)
(* last_practiced) and leaves the list get_priorities(B) returns           *)
(* unchanged, also when A is a prefix of B.                                *)
(***************************************************************************)
C21_ResetScope ==
    [][\A sa \in Sessions, sb \in Sessions :
          (sa # sb /\ reset_priorities(sa)) =>
             /\ \A t \in Topics :
                   <<sb, t>> \in submitted.pairs =>
                      Fields(RecordOf(sb, t))' = Fields(RecordOf(sb, t))
             /\ ReturnedIds(sb)' = ReturnedIds(sb)]_vars

(***************************************************************************)
(* C22  Baseline invariant: in every reachable state a record with         *)
(* questions_attempted = 0 has priority_score 1.0 and questions_correct 0, *)
(* so that the score computed for its first outcome, whatever the outcome  *)
(* and its confidence, is exactly 1.0.                                     *)
(***************************************************************************)
C22_Baseline ==
    \A r \in 1..Len(heap) :
       heap[r].questions_attempted = 0 =>
          /\ heap[r].priority_score = F_1_0
          /\ heap[r].questions_correct = 0
          /\ \A is_correct \in BOOLEAN, confidence \in Confidences :
                calculate_priority_score(heap[r], is_correct, confidence)
                   = F_1_0

\* a record back at zero attempts that still carries the recommendation
\* get_priorities wrote on it while at least four in five of its answers
\* were correct: it had been practised, read, and then reset
C22_Witness ==
    \E r \in 1..Len(heap) :
       /\ heap[r].questions_attempted = 0
       /\ heap[r].study_recommendation = "Review briefly - you're doing well!"

(***************************************************************************)
(* A caller that submits and resets, one call after the other, and keeps   *)
(* the arguments of the call it has made last, as a task that has          *)
(* returned.                                                               *)
(***************************************************************************)
Returning(op, session_id, question_results) ==
    /\ tasks' = <<[NewTask(op, session_id, question_results)
                      EXCEPT !.pc = "done"]>>
    /\ UNCHANGED running

NextBatched ==
    \/ /\ Counted
       /\ \E s \in Sessions, b \in Batches :
             /\ TotalAttempted(heap) + NumRefs(b) <= MaxAttempts
             /\ update_priorities(s, b)
             /\ Returning("update", s, b)
    \/ /\ Counted
       /\ \E s \in Sessions :
             /\ reset_priorities(s)
             /\ Returning("reset", s, <<>>)

Batched == Init /\ [][NextBatched]_vars

(***************************************************************************)
(* C23  Batch splitting: update_priorities(s, r1 \o r2) leaves the engine  *)
(* as update_priorities(s, r1) followed at a later time by                 *)
(* update_priorities(s, r2) leaves it: the same keys, the same records     *)
(* with the same priority_score and counters (last_practiced apart), and   *)
(* the same stored lists, hence the same order from get_priorities(s).     *)
(* Checked for every submission step and every way of cutting its batch    *)
(* in two.                                                                 *)
(***************************************************************************)
C23_BatchSplit ==
    [][(calls' = calls + 1 /\ tasks'[1].op = "update") =>
          \A s \in {tasks'[1].session_id},
             b \in {tasks'[1].question_results} :
             \A k \in 0..Len(b) :
                Timeless(AfterUpdate(AfterUpdate(Engine, s,
                                                 SubSeq(b, 1, k), now),
                                     s, SubSeq(b, k + 1, Len(b)), MaxTime))
                   = Timeless(Engine')]_vars

\* the call that has just returned delivered two outcomes to one topic,
\* and the second of them has moved the record's score away from 1.0
C23_Witness ==
    /\ tasks # <<>>
    /\ tasks[1].op = "update"
    /\ Len(tasks[1].question_results) = 2
    /\ \E n \in Topics :
          /\ \A i \in 1..2 : tasks[1].question_results[i].topics = <<n>>
          /\ RecordOf(tasks[1].session_id, n).questions_attempted = 2
          /\ RecordOf(tasks[1].session_id, n).priority_score # F_1_0

(***************************************************************************)
(* C24  Reset restarts the cycle: after reset_priorities(s) a topic of s   *)
(* evolves under any further outcomes submitted to s as a brand-new topic  *)
(* does under the same outcomes: submitted to the engine as the reset left *)
(* it and to an engine without records, they leave the topic's record      *)
(* with the same priority_score and counters.                              *)
(***************************************************************************)
\* the outcome sequences submitted after the reset: each outcome is on
\* one topic
Restarts == {w \in Batches : \A i \in 1..Len(w) : Len(w[i].topics) = 1}

\* priority_score and counters of the record of (session_id, topic_name)
Progress(e, session_id, topic_name) ==
    LET r == e.heap[Lookup(e.topics, TopicKey(session_id, topic_name))]
    IN  <<r.priority_score, r.questions_attempted, r.questions_correct>>

C24_ResetRestarts ==
    [][\A s \in Sessions :
          reset_priorities(s) =>
             \A w \in Restarts, t \in Topics :
                (t \in NamesOf(w) /\ <<s, t>> \in submitted.pairs) =>
                   Progress(AfterUpdate(Engine', s, w, now), s, t)
                      = Progress(AfterUpdate(EmptyEngine, s, w, now), s, t)]_vars

====
